---- MODULE Spec2Model ----
(***************************************************************************)
(* Model of generate_seo.py, the static-site generator of                  *)
(* insight-chronicles: the article store, the publisher, the placeholder   *)
(* substitution, the homepage splice and the date-sorted listings.         *)
(*                                                                         *)
(* Text is a sequence of tokens (strings).  A placeholder, a marker        *)
(* comment, a slug, a date and a regex escape are one token each, so       *)
(* str.replace and re.sub act on whole tokens.                             *)
(***************************************************************************)
EXTENDS Integers, Sequences, FiniteSets, TLC

(* ---------------------------- bounds ----------------------------------- *)

\* longest batch of drafts read_drafts returns in one run
MaxBatch == 2

\* runs start only while the store can still take the whole batch
MaxArticles == 3

\* longest article sequence handed to the renderers
MaxRenderLen == 7

\* longest batch of the two-listing comparison
MaxPermBatch == 2

(* ------------------------ program constants ---------------------------- *)

SITE_URL == "https://insight-chronicles.com"

AUTO_START == "<!-- AUTO-LATEST-ARTICLES:START -->"

AUTO_END == "<!-- AUTO-LATEST-ARTICLES:END -->"

\* CATEGORIES: name -> file
CATEGORIES == [History |-> "history.html", Geopolitics |-> "geopolitics.html", Technology |-> "technology.html", Governance |-> "governance.html"]

\* the order in which the dict CATEGORIES lists its keys
CategoryOrder == <<"History", "Geopolitics", "Technology", "Governance">>

\* update_index_html calls make_homepage_cards(articles, limit=6)
HomepageLimit == 6

\* the default of draft.get("tags", []) joined by ", " when it is empty
DefaultTagline == "Insight Chronicles"

(* --------------------------- text helpers ------------------------------ *)

\* dict.get(key, default)
Get(rec, key, default) == IF key \in DOMAIN rec THEN rec[key] ELSE default

\* the order of Python's string comparison on the date strings in use
DateKey(s) == CASE s = "" -> 0 [] s = "2025-01-01" -> 1 [] s = "2025-01-02" -> 2 [] s = "2025-01-03" -> 3 [] OTHER -> 4

RECURSIVE Replace(_, _, _)
\* str.replace(k, v): every occurrence of token k becomes the text v
Replace(html, k, v) == IF html = <<>> THEN <<>> ELSE (IF Head(html) = k THEN v ELSE <<Head(html)>>) \o Replace(Tail(html), k, v)

RECURSIVE Join(_, _)
\* sep.join(items)
Join(sep, items) == IF items = <<>> THEN <<>> ELSE IF Len(items) = 1 THEN <<items[1]>> ELSE <<items[1], sep>> \o Join(sep, Tail(items))

\* ", ".join(draft.get("tags", [])) or "Insight Chronicles"
Tagline(draft) == IF Join(", ", Get(draft, "tags", <<>>)) = <<>> THEN <<DefaultTagline>> ELSE Join(", ", Get(draft, "tags", <<>>))

\* the replacements dict of build_article_html, in insertion order
Replacements(draft) == << <<"{{TITLE}}", draft.title>>, <<"{{DESCRIPTION}}", draft.desc>>, <<"{{SLUG}}", <<draft.slug>> >>, <<"{{DATE}}", <<draft.date>> >>, <<"{{THUMB}}", draft.thumb>>, <<"{{THUMB_OG}}", Get(draft, "thumb_og", draft.thumb)>>, <<"{{TAGLINE}}", Tagline(draft)>>, <<"{{CONTENT}}", draft.content>> >>

RECURSIVE ReplaceAll(_, _)
\* for k, v in replacements.items(): html = html.replace(k, v)
ReplaceAll(html, reps) == IF reps = <<>> THEN html ELSE ReplaceAll(Replace(html, reps[1][1], reps[1][2]), Tail(reps))

build_article_html(template, draft) == ReplaceAll(template, Replacements(draft))

(* ------------------------- article records ----------------------------- *)

\* the record publish_drafts appends for draft d
ArticleOf(d) == [title |-> d.title, slug |-> d.slug, url |-> <<SITE_URL, "/", d.slug>>, desc |-> d.desc, date |-> d.date, thumb |-> d.thumb, thumb_og |-> Get(d, "thumb_og", d.thumb), tags |-> Get(d, "tags", <<>>), content_html |-> Get(d, "content", <<>>)]

\* the record put in front of the sequence instead of behind it
AppendArticle_front(arts, d) == <<ArticleOf(d)>> \o arts

\* articles.append(...)
AppendArticle(arts, d) == Append(arts, ArticleOf(d))

\* {a.get("slug") for a in articles}
SlugSet(arts) == {Get(arts[k], "slug", "") : k \in 1..Len(arts)}

\* the test `slug in existing_slugs` that skips a draft
IsSkipped(slug, existing) == slug \in existing

\* what save_articles_json leaves in articles.json
save_articles_json(arts) == arts

\* what load_articles_json returns for the content of articles.json
load_articles_json(content) == content

\* open(slug, "w").write(html) on the directory of article files
WriteFile(fs, path, html) == [p \in (DOMAIN fs) \cup {path} |-> IF p = path THEN html ELSE fs[p]]

(* ------------------------------ sorting -------------------------------- *)

\* the smaller of two numbers
Min(a, b) == IF a <= b THEN a ELSE b

\* s[:n]
Take(s, n) == SubSeq(s, 1, Min(n, Len(s)))

\* key=lambda x: x.get("date", "")
SortKey(a) == DateKey(Get(a, "date", ""))

\* a goes to the end whatever its key
InsertDesc_append(s, a) == Append(s, a)

RECURSIVE InsertDesc(_, _)
\* a goes behind every element whose key is not smaller (the sort is stable)
InsertDesc(s, a) == IF s = <<>> THEN <<a>> ELSE IF SortKey(Head(s)) >= SortKey(a) THEN <<Head(s)>> \o InsertDesc(Tail(s), a) ELSE <<a>> \o s

RECURSIVE SortInto(_, _)
SortInto(acc, arts) == IF arts = <<>> THEN acc ELSE SortInto(InsertDesc(acc, Head(arts)), Tail(arts))

\* the sequence left in store order
SortedByDate_unsorted(arts) == arts

\* sorted(articles, key=lambda x: x.get("date", ""), reverse=True)
SortedByDate(arts) == SortInto(<<>>, arts)

(* ----------------------------- rendering ------------------------------- *)

\* xml.sax.saxutils.escape on one token
EscapeToken(t) == CASE t = "&" -> "&amp;" [] t = "<" -> "&lt;" [] t = ">" -> "&gt;" [] OTHER -> t

\* xml.sax.saxutils.escape
Escape(text) == [k \in 1..Len(text) |-> EscapeToken(text[k])]

RECURSIVE Concat(_)
\* ''.join(texts)
Concat(texts) == IF texts = <<>> THEN <<>> ELSE Head(texts) \o Concat(Tail(texts))

RECURSIVE JoinTexts(_, _)
\* sep.join(texts)
JoinTexts(sep, texts) == IF texts = <<>> THEN <<>> ELSE IF Len(texts) = 1 THEN texts[1] ELSE texts[1] \o <<sep>> \o JoinTexts(sep, Tail(texts))

\* the token that opens a card of the homepage fragment
HomeCardOpen == "<article class=\"ic-article-card\">"

\* the token that opens a card of a listing page
CardOpen == "<article class=\"card\">"

\* one block of make_homepage_cards
HomeCard(a) == <<HomeCardOpen, "<a href=", EscapeToken(a.slug), "<img src=">> \o Escape(Get(a, "thumb", <<"images/upi.webp">>)) \o <<"alt=">> \o Escape(a.title) \o <<"<div class=\"ic-article-tags\">">> \o Concat([k \in 1..Len(Take(Get(a, "tags", <<>>), 3)) |-> <<"<span class=\"ic-tag\">", EscapeToken(Get(a, "tags", <<>>)[k]), "</span>">>]) \o <<"<h3><a href=", EscapeToken(a.slug)>> \o Escape(a.title) \o <<"<p class=\"ic-article-meta\">", EscapeToken(Get(a, "date", "")), "<p class=\"ic-article-excerpt\">">> \o Escape(Get(a, "desc", <<>>)) \o <<"<a href=", EscapeToken(a.slug), "Read article", "</article>">>

make_homepage_cards(arts, limit) == JoinTexts("\n", [k \in 1..Len(Take(SortedByDate(arts), limit)) |-> HomeCard(Take(SortedByDate(arts), limit)[k])])

\* one card of make_articles_page
Card(a) == <<CardOpen, "<a href=", EscapeToken(a.slug), "<img src=">> \o Escape(Get(a, "thumb", <<"images/upi.webp">>)) \o <<"alt=">> \o Escape(a.title) \o <<"<div class=\"tags\">">> \o JoinTexts(" ", [k \in 1..Len(Get(a, "tags", <<>>)) |-> <<"<span class=\"tag\">", EscapeToken(Get(a, "tags", <<>>)[k]), "</span>">>]) \o <<"<h2><a href=", EscapeToken(a.slug)>> \o Escape(a.title) \o <<"<p class=\"meta\">", EscapeToken(Get(a, "date", "")), "<p class=\"desc\">">> \o Escape(Get(a, "desc", <<>>)) \o <<"<a class=\"read\" href=", EscapeToken(a.slug), "Read article", "</article>">>

\* the cards of a listing page, in page order
Cards(arts) == Concat([k \in 1..Len(arts) |-> Card(arts[k])])

make_articles_page(arts) == <<"<!doctype html>", "<h1>All Articles</h1>", "<div class=\"ic-articles-grid\">">> \o Cards(SortedByDate(arts)) \o <<"</div>", "</html>">>

\* one line of the sitemap
UrlEntry(loc, priority) == <<"<url><loc>">> \o loc \o <<"</loc><priority>", priority, "</priority></url>">>

\* the url lines of the category pages, in the order of CATEGORIES.values()
CategoryUrls == [k \in 1..Len(CategoryOrder) |-> UrlEntry(<<SITE_URL, "/", CATEGORIES[CategoryOrder[k]]>>, "0.7")]

\* url lines for the articles the homepage lists only
ArticleUrls_latest(arts) == [k \in 1..Len(Take(arts, HomepageLimit)) |-> UrlEntry(Escape(arts[k].url), "0.8")]

\* the url lines of the articles
ArticleUrls(arts) == [k \in 1..Len(arts) |-> UrlEntry(Escape(arts[k].url), "0.8")]

make_sitemap(arts) == <<"<?xml version=\"1.0\"?>", "<urlset>">> \o JoinTexts("\n", <<UrlEntry(<<SITE_URL, "/">>, "1.0"), UrlEntry(<<SITE_URL, "/articles.html">>, "0.9"), UrlEntry(<<SITE_URL, "/search.html">>, "0.7")>> \o CategoryUrls \o ArticleUrls(SortedByDate(arts))) \o <<"</urlset>">>

(* --------------------------- homepage splice --------------------------- *)

INDEX_FILE == "index.html"

\* in a replacement string of re.sub: a reference to group 1
GroupRef == "\\1"

\* in a replacement string of re.sub: an escape re rejects ("bad escape \d")
BadEscape == "\\d"

\* `token in html`
Contains(html, token) == \E k \in 1..Len(html) : html[k] = token

RECURSIVE ExpandRange(_, _, _, _)
\* tokens lo..hi of the replacement template, every group reference expanded
ExpandRange(repl, group, lo, hi) == IF lo > hi THEN <<>> ELSE IF lo = hi THEN (IF repl[lo] = GroupRef THEN group ELSE <<repl[lo]>>) ELSE ExpandRange(repl, group, lo, (lo + hi) \div 2) \o ExpandRange(repl, group, (lo + hi) \div 2 + 1, hi)

\* the replacement template of re.sub expanded for one match
Expand(repl, group) == ExpandRange(repl, group, 1, Len(repl))

\* the end of the shortest match that starts at the head of html
MatchEnd(html) == CHOOSE j \in 2..Len(html) : html[j] = AUTO_END /\ \A m \in 2..(j - 1) : html[m] # AUTO_END

RECURSIVE Sub(_, _)
\* pattern.sub(repl, html) for AUTO_START(.*?)AUTO_END with re.DOTALL
Sub(html, repl) == IF html = <<>> THEN <<>> ELSE IF Head(html) = AUTO_START /\ Contains(Tail(html), AUTO_END) THEN Expand(repl, SubSeq(html, 2, MatchEnd(html) - 1)) \o Sub(SubSeq(html, MatchEnd(html) + 1, Len(html)), repl) ELSE <<Head(html)>> \o Sub(Tail(html), repl)

\* the string update_index_html passes to pattern.sub
IndexReplacement(arts) == <<AUTO_START, "\n">> \o make_homepage_cards(arts, HomepageLimit) \o <<"\n", AUTO_END>>

\* update_index_html returns without writing
IndexUntouched(fs) == INDEX_FILE \notin DOMAIN fs \/ ~Contains(fs[INDEX_FILE], AUTO_START) \/ ~Contains(fs[INDEX_FILE], AUTO_END)

\* pattern.sub raises re.error
IndexRaises(fs, arts) == ~IndexUntouched(fs) /\ Contains(IndexReplacement(arts), BadEscape)

\* the files update_index_html leaves when it does not raise
update_index_html(fs, arts) == IF IndexUntouched(fs) THEN fs ELSE WriteFile(fs, INDEX_FILE, Sub(fs[INDEX_FILE], IndexReplacement(arts)))

(* ------------------------- the other listings -------------------------- *)

\* one card of make_category_page
CategoryCard(a) == <<HomeCardOpen, "<a href=", EscapeToken(a.slug), "<img src=">> \o Escape(Get(a, "thumb", <<"images/upi.webp">>)) \o <<"alt=">> \o Escape(a.title) \o <<"<h3><a href=", EscapeToken(a.slug)>> \o Escape(a.title) \o <<"<p class=\"ic-article-meta\">", EscapeToken(Get(a, "date", "")), "<p class=\"ic-article-excerpt\">">> \o Escape(Get(a, "desc", <<>>)) \o <<"<a href=", EscapeToken(a.slug), "Read article", "</article>">>

\* [a for a in articles if tag_name in a.get("tags", [])]
FilterByTag(arts, tag_name) == SelectSeq(arts, LAMBDA a : Contains(Get(a, "tags", <<>>), tag_name))

\* cards_html of make_category_page
CategoryCards(arts) == IF arts = <<>> THEN <<"No articles published yet. Coming soon.">> ELSE JoinTexts("\n", [k \in 1..Len(arts) |-> CategoryCard(arts[k])])

make_category_page(tag_name, arts) == <<"<!doctype html>", tag_name, "<h2>Articles</h2>">> \o CategoryCards(SortedByDate(FilterByTag(arts, tag_name))) \o <<"</html>">>

\* datetime.strptime(date, "%Y-%m-%d") reformatted, or `now` when it raises
PubDate(date, now) == CASE date = "2025-01-01" -> "Wed, 01 Jan 2025 00:00:00 +0000" [] date = "2025-01-02" -> "Thu, 02 Jan 2025 00:00:00 +0000" [] date = "2025-01-03" -> "Fri, 03 Jan 2025 00:00:00 +0000" [] OTHER -> now

\* one item of make_rss
RssItem(a, now) == <<"<item>", "<title>">> \o Escape(a.title) \o <<"<link>">> \o Escape(a.url) \o <<"<guid>">> \o Escape(a.url) \o <<"<description>">> \o Escape(Get(a, "desc", <<"New article on Insight Chronicles.">>)) \o <<"<pubDate>", PubDate(Get(a, "date", ""), now), "</item>">>

\* the items of the feed, in feed order
RssItems(arts, now) == Concat([k \in 1..Len(arts) |-> RssItem(arts[k], now)])

make_rss(arts, now) == <<"<rss>", SITE_URL, "<lastBuildDate>", now>> \o RssItems(SortedByDate(arts), now) \o <<"</rss>">>

\* a token re.sub(r"<[^>]+>", " ", html) blanks
IsMarkup(t) == t \in {"<p>", "</p>", "<b>", "</b>"}

\* strip_html: markup becomes blanks, runs of blanks collapse, the ends are trimmed
strip_html(html) == Join(" ", SelectSeq(html, LAMBDA t : ~IsMarkup(t)))

\* one entry of make_search_index
SearchEntry(a) == [title |-> Get(a, "title", <<>>), slug |-> Get(a, "slug", ""), url |-> Get(a, "url", <<>>), desc |-> Get(a, "desc", <<>>), date |-> Get(a, "date", ""), thumb |-> Get(a, "thumb", <<>>), tags |-> Get(a, "tags", <<>>), body |-> IF Get(a, "content_html", <<>>) # <<>> THEN strip_html(Get(a, "content_html", <<>>)) ELSE <<>>]

\* the entries of the search index, in index order
SearchEntries(arts) == [k \in 1..Len(arts) |-> SearchEntry(arts[k])]

make_search_index(arts) == SearchEntries(SortedByDate(arts))

\* every listing main derives from the article sequence
Listings(arts) == [articles_page |-> make_articles_page(arts), homepage_cards |-> make_homepage_cards(arts, HomepageLimit), category_pages |-> [k \in 1..Len(CategoryOrder) |-> make_category_page(CategoryOrder[k], arts)], sitemap |-> make_sitemap(arts), rss |-> make_rss(arts, "now"), search_index |-> make_search_index(arts)]

(* ------------------------ publish_drafts as a whole -------------------- *)

RECURSIVE PublishLoop(_, _, _)
\* for d in drafts: skip d when its slug is in existing_slugs, else append
PublishLoop(arts, ds, existing) == IF ds = <<>> THEN arts ELSE IF IsSkipped(Head(ds).slug, existing) THEN PublishLoop(arts, Tail(ds), existing) ELSE PublishLoop(AppendArticle(arts, Head(ds)), Tail(ds), existing)

\* the article sequence publish_drafts leaves when no draft raises
publish_drafts(arts, ds) == PublishLoop(arts, ds, SlugSet(arts))

(* ----------------------- the files main writes ------------------------ *)

\* the path save_articles_json opens for writing
STORE_FILE == "articles.json"

make_robots == <<"User-agent: *", "Allow: /", "Sitemap:", SITE_URL, "/sitemap.xml">>

make_search_page == <<"<!doctype html>", "<title>Search</title>", "<input id=\"q\">", "<script>fetch('search-index.json')</script>", "</html>">>

make_404 == <<"<!doctype html>", "<title>404</title>", "<h1>Page not found</h1>", "</html>">>

make_site_json(arts) == [site |-> [name |-> "Insight Chronicles", url |-> SITE_URL, language |-> "en"], articles |-> arts]

\* write_category_pages: one file per entry of CATEGORIES, in dict order
CategoryFiles(arts) == [k \in 1..Len(CategoryOrder) |-> <<CATEGORIES[CategoryOrder[k]], make_category_page(CategoryOrder[k], arts)>>]

\* the files main writes after update_index_html, in the order of its
\* open(..., "w") calls, each with its content
DerivedFiles(arts) == << <<"sitemap.xml", make_sitemap(arts)>>, <<"rss.xml", make_rss(arts, "now")>>, <<"robots.txt", make_robots>>, <<"articles.html", make_articles_page(arts)>> >> \o CategoryFiles(arts) \o << <<"search-index.json", make_search_index(arts)>>, <<"search.html", make_search_page>>, <<"404.html", make_404>>, <<"site.json", make_site_json(arts)>> >>

RECURSIVE WriteAll(_, _)
\* the disk after the writes of the list, first to last
WriteAll(fs, outputs) == IF outputs = <<>> THEN fs ELSE WriteAll(WriteFile(fs, outputs[1][1], outputs[1][2]), Tail(outputs))

\* the paths the rest of main opens for writing: index.html when
\* update_index_html gets as far as its write, then the derived files
GeneratedPaths(fs, arts) == (IF IndexUntouched(fs) THEN <<>> ELSE <<INDEX_FILE>>) \o [k \in 1..Len(DerivedFiles(arts)) |-> DerivedFiles(arts)[k][1]]

(* --------------------------- pipeline inputs --------------------------- *)

\* article_template.html
TEMPLATE == <<"<title>", "{{TITLE}}", "</title>", "{{DESCRIPTION}}", "{{SLUG}}", "{{DATE}}", "{{THUMB}}", "{{THUMB_OG}}", "{{TAGLINE}}", "<main>", "{{CONTENT}}", "</main>">>

\* the draft files a drafts directory may hold; two of them carry as their
\* slug the name of a page main writes itself
DraftPool == { [title |-> <<"T">>, desc |-> <<"D">>, slug |-> "a.html", date |-> "2025-01-01", thumb |-> <<"t.webp">>, content |-> <<"<p>", "x", "</p>">>], [title |-> <<"{{CONTENT}}">>, desc |-> <<"D2">>, slug |-> "a.html", date |-> "2025-01-02", thumb |-> <<"t.webp">>, thumb_og |-> <<"og.webp">>, tags |-> <<"History">>, content |-> <<"<p>", "y", "</p>">>], [title |-> <<"U">>, desc |-> <<"D">>, slug |-> "articles.html", date |-> "2025-01-01", thumb |-> <<"u.webp">>, tags |-> <<"History", "Technology">>, content |-> <<"<p>", "z", "<b>", "k", "</b>", "</p>">>], [title |-> <<"V">>, desc |-> <<"D">>, slug |-> "articles.html", date |-> "2025-01-02", thumb |-> <<"u.webp">>, content |-> <<"<p>", "w", "</p>">>], [title |-> <<"AC", "\\d">>, desc |-> <<"D">>, slug |-> "c.html", date |-> "2025-01-03", thumb |-> <<"c.webp">>, content |-> <<"<p>", "v", "</p>">>] }

\* index.html as it is before the first run
HOMEPAGE == <<"<body>", AUTO_START, "<!-- cards -->", AUTO_END, "</body>">>

\* the sequences of length at most n over set S
SeqsUpTo(S, n) == UNION {[1..k -> S] : k \in 0..n}

(* ------------------------------ state ---------------------------------- *)

\* the pipeline: articles.json, the other files on disk (path -> content),
\* and main's locals
VARIABLES store, files, articles, drafts, existing_slugs, published, i, pc, loaded, written, rerun, prev_written

\* the paths opened for writing since main began, in order
VARIABLES paths

\* build_article_html on its own: the inputs and the result
VARIABLES b_template, b_draft, b_html, b_pc

\* the renderers on their own: the input, the disk before and after, the page
VARIABLES r_articles, r_fs0, r_fs, r_out, r_pc

\* two runs over the same store and the same drafts, listed in two orders
VARIABLES q_store, q_batch, q_perm, q_a, q_b, q_listA, q_listB, q_pc

pvars == <<store, files, articles, drafts, existing_slugs, published, i, pc, loaded, written, rerun, prev_written, paths>>

bvars == <<b_template, b_draft, b_html, b_pc>>

rvars == <<r_articles, r_fs0, r_fs, r_out, r_pc>>

qvars == <<q_store, q_batch, q_perm, q_a, q_b, q_listA, q_listB, q_pc>>

vars == <<pvars, bvars, rvars, qvars>>

\* no articles.json, a homepage with an empty marked region, no run under way
PInit == /\ store = <<>>
         /\ files = WriteFile(<<>>, INDEX_FILE, HOMEPAGE)
         /\ articles = <<>>
         /\ drafts = <<>>
         /\ existing_slugs = {}
         /\ published = 0
         /\ i = 1
         /\ pc = "idle"
         /\ loaded = <<>>
         /\ written = <<>>
         /\ rerun = FALSE
         /\ prev_written = {}
         /\ paths = <<>>

BIdle == b_template = <<>> /\ b_draft = <<>> /\ b_html = <<>> /\ b_pc = "off"

RIdle == r_articles = <<>> /\ r_fs0 = <<>> /\ r_fs = <<>> /\ r_out = <<>> /\ r_pc = "off"

QIdle == q_store = <<>> /\ q_batch = <<>> /\ q_perm = <<>> /\ q_a = <<>> /\ q_b = <<>> /\ q_listA = <<>> /\ q_listB = <<>> /\ q_pc = "off"

(* ----------------------------- the pipeline ---------------------------- *)

\* main up to the loop of publish_drafts: load the store, read the drafts
BeginRun(batch, again) == /\ articles' = load_articles_json(store)
                          /\ loaded' = store
                          /\ drafts' = batch
                          /\ existing_slugs' = SlugSet(load_articles_json(store))
                          /\ published' = 0
                          /\ i' = 1
                          /\ pc' = "loop"
                          /\ prev_written' = IF again THEN {written[k].slug : k \in 1..Len(written)} ELSE {}
                          /\ rerun' = again
                          /\ written' = <<>>
                          /\ paths' = <<>>
                          /\ UNCHANGED <<store, files>>

\* a run over whatever the drafts directory holds
Load == /\ pc \in {"idle", "done", "aborted", "crashed"}
        /\ \E batch \in SeqsUpTo(DraftPool, MaxBatch) : Len(store) + Len(batch) <= MaxArticles /\ BeginRun(batch, FALSE)
        /\ UNCHANGED <<bvars, rvars, qvars>>

\* the run after an aborted one, over the same drafts, the failure removed
Rerun == /\ pc = "aborted"
         /\ BeginRun(drafts, TRUE)
         /\ UNCHANGED <<bvars, rvars, qvars>>

\* one iteration of the loop: the draft's slug is in existing_slugs
Skip == /\ pc = "loop"
        /\ i <= Len(drafts)
        /\ IsSkipped(drafts[i].slug, existing_slugs)
        /\ i' = i + 1
        /\ UNCHANGED <<store, files, articles, drafts, existing_slugs, published, pc, loaded, written, rerun, prev_written, paths>>
        /\ UNCHANGED <<bvars, rvars, qvars>>

\* the loop body with the store saved inside it
Publish_saving == /\ pc = "loop"
                  /\ i <= Len(drafts)
                  /\ ~IsSkipped(drafts[i].slug, existing_slugs)
                  /\ files' = WriteFile(files, drafts[i].slug, build_article_html(TEMPLATE, drafts[i]))
                  /\ articles' = AppendArticle(articles, drafts[i])
                  /\ store' = save_articles_json(AppendArticle(articles, drafts[i]))
                  /\ published' = published + 1
                  /\ written' = Append(written, [slug |-> drafts[i].slug, html |-> build_article_html(TEMPLATE, drafts[i])])
                  /\ paths' = Append(Append(paths, drafts[i].slug), STORE_FILE)
                  /\ i' = i + 1
                  /\ UNCHANGED <<drafts, existing_slugs, pc, loaded, rerun, prev_written>>
                  /\ UNCHANGED <<bvars, rvars, qvars>>

\* one iteration of the loop: render, write the file, append the record
Publish == /\ pc = "loop"
           /\ i <= Len(drafts)
           /\ ~IsSkipped(drafts[i].slug, existing_slugs)
           /\ files' = WriteFile(files, drafts[i].slug, build_article_html(TEMPLATE, drafts[i]))
           /\ articles' = AppendArticle(articles, drafts[i])
           /\ published' = published + 1
           /\ written' = Append(written, [slug |-> drafts[i].slug, html |-> build_article_html(TEMPLATE, drafts[i])])
           /\ paths' = Append(paths, drafts[i].slug)
           /\ i' = i + 1
           /\ UNCHANGED <<store, drafts, existing_slugs, pc, loaded, rerun, prev_written>>
           /\ UNCHANGED <<bvars, rvars, qvars>>

\* one iteration of the loop raises (open(slug, "w") fails): main is left
\* before save_articles_json; a rerun does not take this step
Fail == /\ pc = "loop"
        /\ ~rerun
        /\ i <= Len(drafts)
        /\ ~IsSkipped(drafts[i].slug, existing_slugs)
        /\ pc' = "aborted"
        /\ UNCHANGED <<store, files, articles, drafts, existing_slugs, published, i, loaded, written, rerun, prev_written, paths>>
        /\ UNCHANGED <<bvars, rvars, qvars>>

\* publish_drafts has returned: save_articles_json(articles)
Save == /\ pc = "loop"
        /\ i > Len(drafts)
        /\ store' = save_articles_json(articles)
        /\ pc' = "saved"
        /\ paths' = Append(paths, STORE_FILE)
        /\ UNCHANGED <<files, articles, drafts, existing_slugs, published, i, loaded, written, rerun, prev_written>>
        /\ UNCHANGED <<bvars, rvars, qvars>>

\* the rest of main: update_index_html, then the derived files; re.error
\* raised by update_index_html leaves main before any of them is written
Generate == /\ pc = "saved"
            /\ IF IndexRaises(files, articles) THEN pc' = "crashed" /\ UNCHANGED <<files, paths>> ELSE pc' = "done" /\ files' = WriteAll(update_index_html(files, articles), DerivedFiles(articles)) /\ paths' = paths \o GeneratedPaths(files, articles)
            /\ UNCHANGED <<store, articles, drafts, existing_slugs, published, i, loaded, written, rerun, prev_written>>
            /\ UNCHANGED <<bvars, rvars, qvars>>

PNext == Load \/ Rerun \/ Skip \/ Publish \/ Fail \/ Save \/ Generate

Init == PInit /\ BIdle /\ RIdle /\ QIdle

Next == PNext

Spec == Init /\ [][Next]_vars

(* ------------------- build_article_html on its own --------------------- *)

\* templates: the site's, and two that repeat or reorder placeholders
BuildTemplates == {TEMPLATE, <<"{{CONTENT}}", "<hr>", "{{TITLE}}">>, <<"{{TITLE}}", "<hr>", "{{TITLE}}", "{{TAGLINE}}", "{{DATE}}">>}

\* titles and bodies, some of which quote a placeholder
BuildTitles == {<<"T">>, <<"{{CONTENT}}">>, <<"{{TITLE}}">>, <<"on", "{{DATE}}">>}

BuildContents == {<<"x">>, <<"{{TITLE}}">>, <<"{{CONTENT}}">>, <<"<p>", "{{TAGLINE}}", "</p>">>}

BuildDrafts == {[title |-> t, desc |-> <<"D">>, slug |-> "a.html", date |-> "2025-01-01", thumb |-> <<"t.webp">>, content |-> c] : t \in BuildTitles, c \in BuildContents} \cup {[title |-> t, desc |-> <<"D">>, slug |-> "a.html", date |-> "2025-01-01", thumb |-> <<"t.webp">>, thumb_og |-> <<"og.webp">>, tags |-> <<"History", "{{CONTENT}}">>, content |-> c] : t \in BuildTitles, c \in BuildContents}

BInit == /\ b_template \in BuildTemplates
         /\ b_draft \in BuildDrafts
         /\ b_html = <<>>
         /\ b_pc = "input"

Build == /\ b_pc = "input"
         /\ b_html' = build_article_html(b_template, b_draft)
         /\ b_pc' = "built"
         /\ UNCHANGED <<b_template, b_draft>>
         /\ UNCHANGED <<pvars, rvars, qvars>>

InitBuild == BInit /\ PInit /\ RIdle /\ QIdle

NextBuild == Build

SpecBuild == InitBuild /\ [][NextBuild]_vars

(* ------------------------ the renderers on their own ------------------- *)

\* the slug of the k-th article of a rendered sequence
SlugAt(k) == <<"s1.html", "s2.html", "s3.html", "s4.html", "s5.html", "s6.html", "s7.html", "s8.html", "s9.html", "s10.html">>[k]

\* what the articles of a rendered sequence differ in
RenderKinds == {[date |-> "2025-01-02", title |-> <<"T", "&">>], [date |-> "2025-01-01", title |-> <<"A", GroupRef>>], [date |-> "2025-01-03", title |-> <<"AC", BadEscape>>]}

\* the store record of the draft of that kind published under the k-th slug
RenderArticle(k, kind) == ArticleOf([title |-> kind.title, desc |-> <<"D">>, slug |-> SlugAt(k), date |-> kind.date, thumb |-> <<"t.webp">>, tags |-> <<"History">>, content |-> <<"<p>", "x", "</p>">>])

RenderInputs == {[k \in 1..Len(kinds) |-> RenderArticle(k, kinds[k])] : kinds \in SeqsUpTo(RenderKinds, MaxRenderLen)}

\* index.html: absent, well marked, lacking a marker, markers in the wrong
\* order, two marked regions
Homepages == {<<>>, WriteFile(<<>>, INDEX_FILE, HOMEPAGE), WriteFile(<<>>, INDEX_FILE, <<"<body>", AUTO_START, "old", "</body>">>), WriteFile(<<>>, INDEX_FILE, <<"<body>", AUTO_END, "old", AUTO_START, "</body>">>), WriteFile(<<>>, INDEX_FILE, <<"<body>", AUTO_START, "o1", AUTO_END, "mid", AUTO_START, "o2", AUTO_END, "</body>">>)}

RInit == /\ r_articles \in RenderInputs
         /\ r_fs0 \in Homepages
         /\ r_fs = r_fs0
         /\ r_out = <<>>
         /\ r_pc = "input"

\* update_index_html(articles) returns
UpdateIndex == /\ r_pc = "input"
               /\ ~IndexRaises(r_fs, r_articles)
               /\ r_fs' = update_index_html(r_fs, r_articles)
               /\ r_pc' = "index"
               /\ UNCHANGED <<r_articles, r_fs0, r_out>>
               /\ UNCHANGED <<pvars, bvars, qvars>>

\* update_index_html(articles) raises re.error
UpdateIndexRaises == /\ r_pc = "input"
                     /\ IndexRaises(r_fs, r_articles)
                     /\ r_pc' = "raised"
                     /\ UNCHANGED <<r_articles, r_fs0, r_fs, r_out>>
                     /\ UNCHANGED <<pvars, bvars, qvars>>

MakeArticlesPage == /\ r_pc = "input"
                    /\ r_out' = make_articles_page(r_articles)
                    /\ r_pc' = "articles_page"
                    /\ UNCHANGED <<r_articles, r_fs0, r_fs>>
                    /\ UNCHANGED <<pvars, bvars, qvars>>

MakeSitemap == /\ r_pc = "input"
               /\ r_out' = make_sitemap(r_articles)
               /\ r_pc' = "sitemap"
               /\ UNCHANGED <<r_articles, r_fs0, r_fs>>
               /\ UNCHANGED <<pvars, bvars, qvars>>

RNext == UpdateIndex \/ UpdateIndexRaises \/ MakeArticlesPage \/ MakeSitemap

InitRender == RInit /\ PInit /\ BIdle /\ QIdle

NextRender == RNext

SpecRender == InitRender /\ [][NextRender]_vars

(* -------------------- one batch listed in two orders ------------------- *)

\* the orders in which os.listdir may list the files of one batch
ListingOrders(s) == {[k \in 1..Len(s) |-> s[f[k]]] : f \in {g \in [1..Len(s) -> 1..Len(s)] : \A m, n \in 1..Len(s) : g[m] = g[n] => m = n}}

\* the stores the two runs may start from
PermStores == {<<>>} \cup {<<ArticleOf(d)>> : d \in DraftPool}

QInit == /\ q_store \in PermStores
         /\ q_batch \in SeqsUpTo(DraftPool, MaxPermBatch)
         /\ q_perm \in ListingOrders(q_batch)
         /\ q_a = <<>>
         /\ q_b = <<>>
         /\ q_listA = <<>>
         /\ q_listB = <<>>
         /\ q_pc = "input"

\* publish_drafts in both runs
PublishBoth == /\ q_pc = "input"
               /\ q_a' = publish_drafts(load_articles_json(q_store), q_batch)
               /\ q_b' = publish_drafts(load_articles_json(q_store), q_perm)
               /\ q_pc' = "published"
               /\ UNCHANGED <<q_store, q_batch, q_perm, q_listA, q_listB>>
               /\ UNCHANGED <<pvars, bvars, rvars>>

\* the listings main derives in both runs
RenderBoth == /\ q_pc = "published"
              /\ q_listA' = Listings(q_a)
              /\ q_listB' = Listings(q_b)
              /\ q_pc' = "rendered"
              /\ UNCHANGED <<q_store, q_batch, q_perm, q_a, q_b>>
              /\ UNCHANGED <<pvars, bvars, rvars>>

QNext == PublishBoth \/ RenderBoth

InitPerm == QInit /\ PInit /\ BIdle /\ RIdle

NextPerm == QNext

SpecPerm == InitPerm /\ [][NextPerm]_vars

(* ------------------------------ claims --------------------------------- *)

\* s is a prefix of t
IsPrefix(s, t) == Len(s) <= Len(t) /\ \A k \in 1..Len(s) : s[k] = t[k]

\* no two records of the sequence carry the same slug
UniqueSlugs(arts) == \A m, n \in 1..Len(arts) : arts[m].slug = arts[n].slug => m = n

\* C1: after any sequence of runs no two article records of the store have
\* the same slug, also when two drafts of one batch carry the same slug.
C1_UniqueSlugs == UniqueSlugs(store)

\* the template with every placeholder occurrence replaced by the draft's
\* value, the values taken verbatim (one simultaneous pass over the template)
RECURSIVE Substituted(_, _)
Substituted(template, reps) == IF reps = <<>> THEN template ELSE IF template = <<>> THEN <<>> ELSE (IF \E r \in 1..Len(reps) : reps[r][1] = Head(template) THEN reps[CHOOSE r \in 1..Len(reps) : reps[r][1] = Head(template)][2] ELSE <<Head(template)>>) \o Substituted(Tail(template), reps)

\* the loop has just handled draft i without raising
Handled == pc = "loop" /\ i <= Len(drafts) /\ i' = i + 1

\* C2: publishing a draft whose slug is not in the article sequence appends
\* exactly one record, the draft's, at the end, and leaves at the slug's path
\* the template with all eight placeholders replaced by the draft's values.
C2_PublishNew == [][(Handled /\ drafts[i].slug \notin SlugSet(articles)) => (/\ Len(articles') = Len(articles) + 1 /\ SubSeq(articles', 1, Len(articles)) = articles /\ articles'[Len(articles')].slug = drafts[i].slug /\ drafts[i].slug \in DOMAIN files' /\ files'[drafts[i].slug] = Substituted(TEMPLATE, Replacements(drafts[i])))]_vars

\* C3: a draft whose slug is already in the article sequence is skipped: the
\* sequence is unchanged, nothing is written, the count does not move.
C3_SkipExisting == [][(Handled /\ drafts[i].slug \in SlugSet(articles)) => (articles' = articles /\ files' = files /\ written' = written /\ published' = published)]_vars

\* C4: the sequence saved at the end of a completed run has the sequence
\* loaded at its start as a prefix.
C4_AppendOnly == pc \in {"saved", "done"} => IsPrefix(loaded, store)

\* a completed run that saved more than the non-empty store it loaded
C4_Witness == pc = "saved" /\ Len(loaded) > 0 /\ Len(store) > Len(loaded)

\* the file of written[k] holds what the last write to its path left
FileKept(k) == /\ written[k].slug \in DOMAIN files
               /\ (\A m \in (k + 1)..Len(written) : written[m].slug # written[k].slug) => files[written[k].slug] = written[k].html

C6_NoResubstitution == b_pc = "built" => b_html = Substituted(b_template, Replacements(b_draft))

\* the homepage holds one start marker, then one end marker
WellMarked(html) == /\ Cardinality({k \in 1..Len(html) : html[k] = AUTO_START}) = 1
                    /\ Cardinality({k \in 1..Len(html) : html[k] = AUTO_END}) = 1
                    /\ \E m, n \in 1..Len(html) : m < n /\ html[m] = AUTO_START /\ html[n] = AUTO_END

\* the position of the only occurrence of token in html
PositionOf(html, token) == CHOOSE k \in 1..Len(html) : html[k] = token

\* html with the text between its two markers replaced by the fragment
Spliced(html, fragment) == SubSeq(html, 1, PositionOf(html, AUTO_START)) \o <<"\n">> \o fragment \o <<"\n">> \o SubSeq(html, PositionOf(html, AUTO_END), Len(html))

\* C7: update_index_html changes only the marked region: a homepage with
\* both markers comes out with the text between them replaced by the cards
\* of the 6 latest articles and is otherwise unchanged; a missing homepage
\* or one that lacks a marker is not modified.
C7_OnlyMarkedRegion == r_pc \in {"index", "raised"} => /\ IndexUntouched(r_fs0) => r_fs = r_fs0
                                                       /\ (~IndexUntouched(r_fs0) /\ WellMarked(r_fs0[INDEX_FILE])) => r_fs[INDEX_FILE] = Spliced(r_fs0[INDEX_FILE], make_homepage_cards(r_articles, HomepageLimit))

\* the positions at which page opens a card for slug
CardPositions(page, slug) == {p \in 1..(Len(page) - 2) : page[p] = CardOpen /\ page[p + 2] = slug}

\* C8: the articles page holds exactly one card per article of the input,
\* and the card of an article with a greater date comes first.
C8_ArticlesPageOrder == r_pc = "articles_page" => /\ Cardinality({p \in 1..Len(r_out) : r_out[p] = CardOpen}) = Len(r_articles)
                                                  /\ \A k \in 1..Len(r_articles) : Cardinality(CardPositions(r_out, r_articles[k].slug)) = 1
                                                  /\ \A m, n \in 1..Len(r_articles) : DateKey(r_articles[m].date) > DateKey(r_articles[n].date) => \A p \in CardPositions(r_out, r_articles[m].slug), t \in CardPositions(r_out, r_articles[n].slug) : p < t

\* a page of an input in which a later article has the greater date
C8_Witness == r_pc = "articles_page" /\ \E m, n \in 1..Len(r_articles) : m < n /\ DateKey(r_articles[m].date) < DateKey(r_articles[n].date)

\* the positions at which the sitemap opens a url entry
UrlPositions(sitemap) == {p \in 1..Len(sitemap) : sitemap[p] = "<url><loc>"}

\* C9: the sitemap holds one url entry per article record plus 3 + (number
\* of categories) fixed entries: len(articles) + 7.
C9_SitemapEntries == r_pc = "sitemap" => /\ Cardinality(UrlPositions(r_out)) = Len(r_articles) + 3 + Cardinality(DOMAIN CATEGORIES)
                                         /\ Cardinality(UrlPositions(r_out)) = Len(r_articles) + 7
                                         /\ \A k \in 1..Len(r_articles) : Cardinality({p \in UrlPositions(r_out) : p + 3 <= Len(r_out) /\ SubSeq(r_out, p + 1, p + 3) = r_articles[k].url}) = 1

\* a sitemap of more articles than the homepage lists
C9_Witness == r_pc = "sitemap" /\ Len(r_articles) > HomepageLimit

\* C10 as stated: whatever the order in which the drafts are listed, every
\* rendered listing is the same, also when two drafts have the same date.
C10_AnyOrder == q_pc = "rendered" => q_listA = q_listB

\* no two drafts of the batch have the same date
DistinctDates(batch) == \A m, n \in 1..Len(batch) : batch[m].date = batch[n].date => m = n

\* C10 amended: the order in which the drafts are listed does not change any
\* rendered listing when no two drafts of the batch have the same date.
C10_OrderOfDistinctDates == (q_pc = "rendered" /\ DistinctDates(q_batch)) => q_listA = q_listB

\* two orders of drafts with different dates that left two different stores
C10_Witness == q_pc = "rendered" /\ DistinctDates(q_batch) /\ q_perm # q_batch /\ q_a # q_b /\ Len(q_a) = Len(q_store) + Len(q_batch)

\* C11: within one run every write goes to a distinct output path: when main
\* has written its last file, no path was opened for writing by two of its
\* steps, whatever the slugs of the drafts.
C11_DistinctPaths == pc = "done" => \A m, n \in 1..Len(paths) : paths[m] = paths[n] => m = n

====
